---- MODULE Spec2Model ----
(***************************************************************************)
(* A state-machine model of the health-report engine of                    *)
(* helix-pingdom-status (report, getVersion, wrap, main, xml).             *)
(*                                                                         *)
(* JavaScript runs one macrotask at a time: an action below is one         *)
(* macrotask (a top-level call, the fs.readFile callback, the completion   *)
(* of one HTTP probe) together with every microtask continuation it        *)
(* releases.                                                               *)
(***************************************************************************)
EXTENDS Integers, Sequences, FiniteSets, TLC

(***************************************************************************)
(* Bounds                                                                  *)
(***************************************************************************)
\* number of top-level calls (main / wrapped handler / report) in a process
MaxInv == 2

Invocations == 1..MaxInv

(***************************************************************************)
(* JavaScript values.  Every value is a record with one field that names   *)
(* its type, so values of different types are different values.            *)
(***************************************************************************)
Undefined == [undef |-> TRUE]
Null == [null |-> TRUE]
Str(s) == [str |-> s]
Num(n) == [num |-> n]
Bool(b) == [bool |-> b]
Obj(f) == [obj |-> f]
Fn(f) == [fn |-> f]

IsStr(v) == DOMAIN v = {"str"}
IsNum(v) == DOMAIN v = {"num"}
IsObj(v) == DOMAIN v = {"obj"}

\* typeof v
TypeOf(v) ==
  CASE DOMAIN v = {"undef"} -> "undefined"
    [] DOMAIN v = {"null"} -> "object"
    [] DOMAIN v = {"str"} -> "string"
    [] DOMAIN v = {"num"} -> "number"
    [] DOMAIN v = {"bool"} -> "boolean"
    [] DOMAIN v = {"obj"} -> "object"
    [] DOMAIN v = {"fn"} -> "function"

\* ToBoolean(v)
Truthy(v) ==
  CASE DOMAIN v = {"undef"} -> FALSE
    [] DOMAIN v = {"null"} -> FALSE
    [] DOMAIN v = {"str"} -> v.str # ""
    [] DOMAIN v = {"num"} -> v.num # 0
    [] DOMAIN v = {"bool"} -> v.bool
    [] OTHER -> TRUE

\* a || b
Or(a, b) == IF Truthy(a) THEN a ELSE b

\* o[k] of an object: undefined when the property is absent
Get(o, k) == IF k \in DOMAIN o.obj THEN o.obj[k] ELSE Undefined

(***************************************************************************)
(* Property names are sequences of one-character strings, so that the key  *)
(* filter can look at each character.                                      *)
(***************************************************************************)
Lower == {"a", "b", "c", "d", "e", "f", "g", "h", "i", "j", "k", "l", "m",
          "n", "o", "p", "q", "r", "s", "t", "u", "v", "w", "x", "y", "z"}
Digit == {"0", "1", "2", "3", "4", "5", "6", "7", "8", "9"}

K_status == <<"s", "t", "a", "t", "u", "s">>
K_version == <<"v", "e", "r", "s", "i", "o", "n">>
K_response_time == <<"r", "e", "s", "p", "o", "n", "s", "e", "_", "t", "i", "m", "e">>
K_process == <<"p", "r", "o", "c", "e", "s", "s">>
K_activation == <<"a", "c", "t", "i", "v", "a", "t", "i", "o", "n">>
K_error == <<"e", "r", "r", "o", "r">>
K_url == <<"u", "r", "l">>
K_statuscode == <<"s", "t", "a", "t", "u", "s", "c", "o", "d", "e">>
K_body == <<"b", "o", "d", "y">>
K_ow_path == <<"_", "_", "o", "w", "_", "p", "a", "t", "h">>

PINGDOM_XML_PATH == "/_status_check/pingdom.xml"
HEALTHCHECK_PATH == "/_status_check/healthcheck.json"

\* key.match('^[a-z0-9]+$'): a non-empty key of lowercase letters and digits
KeyMatchUnanchored(key) == \E n \in 1..Len(key) : key[n] \in Lower \cup Digit
KeyMatch(key) ==
  /\ Len(key) >= 1
  /\ \A n \in 1..Len(key) : key[n] \in Lower \cup Digit

(***************************************************************************)
(* Rendering                                                               *)
(***************************************************************************)
K_root == <<"p", "i", "n", "g", "d", "o", "m", "_", "h", "t", "t", "p", "_",
            "c", "u", "s", "t", "o", "m", "_", "c", "h", "e", "c", "k">>

\* escape(o) of xml-escape: the string with its markup characters replaced
escape(s) == [escaped |-> s]

\* xml(o, name): <name>value</name>; an object renders one child element per
\* key, a string is escaped, any other scalar is put as it is
RECURSIVE xml(_, _)
xml(o, name) ==
  [tag |-> name,
   value |-> IF TypeOf(o) = "object" /\ IsObj(o)
               THEN [children |-> {xml(o.obj[k], k) : k \in DOMAIN o.obj}]
               ELSE IF TypeOf(o) = "string" THEN escape(o.str)
               ELSE [text |-> o]]

\* the default decorator of report() and the one wrap() passes for the
\* healthcheck path
XmlDecorator == [body |-> "xml", mime |-> "application/xml", name |-> [chars |-> K_root]]
JsonDecorator == [body |-> "identity", mime |-> "application/json", name |-> Undefined]

\* decorator.body(o, decorator.name)
DecoratorBody(d, o) == IF d.body = "xml" THEN xml(o, d.name.chars) ELSE o

(***************************************************************************)
(* The HTTP client (request-promise-native) as report() sees it            *)
(***************************************************************************)
\* response.timings.end is a float of milliseconds: whole part and tenths
TimingsEnd == {[whole |-> 57, tenths |-> 3], [whole |-> 120, tenths |-> 8]}

\* Math.floor of a non-negative float
MathFloor(x) == x.whole

\* rejection of a non-2xx response: carries the response and the options
StatusCodeError(uri, code, body) ==
  [name |-> "StatusCodeError",
   message |-> Str("StatusCodeError"),
   response |-> [statusCode |-> Num(code), body |-> Str(body)],
   options |-> [uri |-> uri]]

\* rejection of a network error or a timeout: no response, but the options
RequestError(uri, msg) ==
  [name |-> "RequestError",
   message |-> Str(msg),
   response |-> Undefined,
   options |-> [uri |-> uri]]

\* what Object.keys(null) throws: neither response nor options
TypeErrorOfNull ==
  [name |-> "TypeError",
   message |-> Str("Cannot convert undefined or null to object"),
   response |-> Undefined,
   options |-> Undefined]

Pending == [pending |-> TRUE]
Fulfilled(r) == [fulfilled |-> r]
Rejected(e) == [rejected |-> e]
IsPending(p) == DOMAIN p = {"pending"}
IsFulfilled(p) == DOMAIN p = {"fulfilled"}
IsRejected(p) == DOMAIN p = {"rejected"}

\* the ways one probe of uri can end
ProbeOutcomes(uri) ==
  {Fulfilled([statusCode |-> Num(200), timings |-> [end |-> t]]) : t \in TimingsEnd}
    \cup {Rejected(StatusCodeError(uri, 404, "not found")),
          Rejected(StatusCodeError(uri, 503, "")),
          Rejected(RequestError(uri, "ESOCKETTIMEDOUT"))}

(***************************************************************************)
(* Inputs                                                                  *)
(***************************************************************************)
K_d1 == <<"d", "1">>
K_d2 == <<"d", "2">>
K_D1 == <<"D", "1">>
K_space == <<"a", " ", "b">>
K_dot == <<"d", ".", "1">>
K_empty == <<>>

U1 == Str("https://one.example/")
U2 == Str("https://two.example/")

\* check specifications: key -> URL
CheckSpecs ==
  {Obj(<<>>),
   Obj(K_d1 :> U1),
   Obj(K_d1 :> U1 @@ K_d2 :> U2),
   Obj(K_status :> U1 @@ K_D1 :> U2),
   Obj(K_version :> U2 @@ K_space :> U1),
   Obj(K_empty :> U1 @@ K_dot :> U2)}

\* what Date.now() - start can be when the report is built
Elapsed == {12}

\* what reading and parsing package.json can give: a read error, text that
\* is not JSON, JSON without a version, JSON with a version
ReadOutcomes ==
  {[err |-> TRUE, data |-> Undefined],
   [err |-> FALSE, data |-> Str("not json")],
   [err |-> FALSE, data |-> Obj(<<>>)],
   [err |-> FALSE, data |-> Obj(K_version :> Str("1.2.3"))]}

\* the first argument of main
TheHandler == Fn("handler")
MainArgs ==
  {Obj(<<>>), Obj(K_d1 :> U1), TheHandler, Null, Undefined, Num(7), Str("x"), Bool(TRUE)}

\* the checks given to wrap
WrapChecks == {Obj(<<>>), Obj(K_d1 :> U1 @@ K_D1 :> U2)}

\* the params a wrapped handler is called with
ParamsSet ==
  {Undefined,
   Obj(<<>>),
   Obj(K_ow_path :> Str(PINGDOM_XML_PATH)),
   Obj(K_ow_path :> Str(HEALTHCHECK_PATH)),
   Obj(K_ow_path :> Str("/index.html"))}

\* what the wrapped function returns
HandlerResults == {Obj(K_body :> Str("hello")), Undefined}

(***************************************************************************)
(* State                                                                   *)
(***************************************************************************)
VARIABLES
  _version,       \* let _version: the process-wide cached version
  readFileCalls,  \* number of fs.readFile('package.json') calls so far
  versionWrites,  \* number of assignments to _version so far
  readFileResult, \* the (err, data) the latest fs.readFile callback was given
  env,            \* process.env.__OW_ACTIVATION_ID
  pc,             \* per call: idle, reading, join, returned, rejected, threw
  call,           \* per call: the function called and its first argument
  checks,         \* per call: report()'s checks
  decorator,      \* per call: report()'s decorator
  version,        \* per call: const version of report()
  runchecks,      \* per call: the probes issued, key -> [uri, state]
  report,         \* per call: the object handed to decorator.body
  result,         \* per call: the value returned (or the error raised)
  handlerCalls    \* per call: the arguments the wrapped function got, its result

\* the state of the provisioning CLI (src/newrelic.js), a process of its own
VARIABLES
  argv,           \* the parsed command line: auth, name, url, email, monitor_id
  monitors,       \* the monitors the service holds: their number (ids
                  \* 1..total) and the ids of those named as argv.name
  cliPc,          \* off, start, page, put, post, done, exit1, rejected
  frame,          \* the arguments of the running updateOrCreateMonitor
  depth,          \* its recursion depth
  loadedmonitors, \* getMonitors: the monitors loaded so far
  pages,          \* getMonitors: offset, limit and count of each page received
  lookup,         \* the outcome of the latest getMonitors
  posts,          \* the monitor-creation requests issued
  uploads,        \* the check scripts uploaded
  channels,       \* the alert channels the service holds
  channelGets,    \* number of channel-list requests issued
  channelPosts,   \* number of channel-creation requests issued
  doneLogged,     \* whether 'done.' was logged
  exitCode        \* the exit code of the process, once it has ended

reportVars == <<_version, readFileCalls, versionWrites, readFileResult, env, pc,
                call, checks, decorator, version, runchecks, report, result,
                handlerCalls>>

cliVars == <<argv, monitors, channels, cliPc, frame, depth, loadedmonitors, pages, lookup,
             posts, uploads, channelGets, channelPosts, doneLogged, exitCode>>

vars == <<reportVars, cliVars>>

None == [none |-> TRUE]

(***************************************************************************)
(* report(), lines 56-125, as functions of its locals                      *)
(***************************************************************************)
\* Math.abs
MathAbs(x) == IF x < 0 THEN -x ELSE x

\* {statusCode, headers: {Content-Type, X-Version}, body: decorator.body(..)}
Rendered(statusCode, d, v, rep) ==
  [statusCode |-> statusCode,
   headers |-> [ContentType |-> d.mime, XVersion |-> v],
   body |-> DecoratorBody(d, rep)]

\* checkresults.reduce(...): key -> Math.floor(response.timings.end)
Reduce(checkresults) ==
  [k \in DOMAIN checkresults |-> Num(MathFloor(checkresults[k].timings.end))]

\* the object literal of the success path: the spread of the reduced check
\* results comes last, so its keys win over the fields written before it
OkReport(v, rt, checkresults) ==
  Obj(Reduce(checkresults)
        @@ (K_status :> Str("OK")
              @@ K_version :> v
              @@ K_response_time :> Num(MathAbs(rt))
              @@ K_process :> Obj(K_activation :> env)))

\* lines 81-100
Success(d, v, rt, checkresults) ==
  [pc |-> "returned",
   report |-> OkReport(v, rt, checkresults),
   result |-> Rendered(Num(200), d, v, OkReport(v, rt, checkresults))]

\* (e.response ? e.response.statusCode : '') || 500
CatchStatusCodeNoFallback(e) ==
  IF Truthy(e.response) THEN e.response.statusCode ELSE Str("")
CatchStatusCode(e) ==
  Or(IF Truthy(e.response) THEN e.response.statusCode ELSE Str(""), Num(500))

\* (e.response ? e.response.body : '') || e.message
CatchBodyNoFallback(e) ==
  IF Truthy(e.response) THEN e.response.body ELSE Str("")
CatchBody(e) ==
  Or(IF Truthy(e.response) THEN e.response.body ELSE Str(""), e.message)

FailedReport(e, v, rt) ==
  Obj(K_status :> Str("failed")
        @@ K_version :> v
        @@ K_response_time :> Num(MathAbs(rt))
        @@ K_error :> Obj(K_url :> e.options.uri
                            @@ K_statuscode :> CatchStatusCode(e)
                            @@ K_body :> CatchBody(e))
        @@ K_process :> Obj(K_activation :> env))

\* lines 101-124: e.options.uri of an error without options raises a
\* TypeError inside the catch block, which rejects report()'s promise
Catch(e, d, v, rt) ==
  IF e.options = Undefined
    THEN [pc |-> "rejected", report |-> None,
          result |-> [raised |-> "TypeError"]]
    ELSE [pc |-> "returned",
          report |-> FailedReport(e, v, rt),
          result |-> Rendered(CatchStatusCode(e), d, v, FailedReport(e, v, rt))]

\* lines 74-77: one probe per key that passes the filter, all issued in the
\* same synchronous map
Runchecks(c) ==
  [k \in {key \in DOMAIN c.obj : KeyMatch(key)} |->
     [uri |-> c.obj[k], state |-> Pending]]

\* Promise.all over the probes: rejected with the reason of the first probe
\* that rejects, fulfilled with all the values once every probe is fulfilled
PromiseAllRace(rc) ==
  IF \E k \in DOMAIN rc : IsRejected(rc[k].state)
    THEN Rejected((rc[CHOOSE k \in DOMAIN rc : IsRejected(rc[k].state)]).state.rejected)
    ELSE IF \E k \in DOMAIN rc : IsFulfilled(rc[k].state)
      THEN Fulfilled([k \in {q \in DOMAIN rc : IsFulfilled(rc[q].state)} |->
                         rc[k].state.fulfilled])
      ELSE Pending
PromiseAll(rc) ==
  IF \E k \in DOMAIN rc : IsRejected(rc[k].state)
    THEN Rejected((rc[CHOOSE k \in DOMAIN rc : IsRejected(rc[k].state)]).state.rejected)
    ELSE IF \A k \in DOMAIN rc : IsFulfilled(rc[k].state)
      THEN Fulfilled([k \in DOMAIN rc |-> rc[k].state.fulfilled])
      ELSE Pending

\* line 79 onwards: what report() does once the join has settled
AfterJoin(d, v, rt, rc) ==
  IF IsRejected(PromiseAll(rc))
    THEN Catch(PromiseAll(rc).rejected, d, v, rt)
    ELSE IF IsFulfilled(PromiseAll(rc))
      THEN Success(d, v, rt, PromiseAll(rc).fulfilled)
      ELSE [pc |-> "join", report |-> None, result |-> None]

\* lines 60-79: the try block up to the await of the join
TryBlock(c, d, v, rt) ==
  IF c = Null
    THEN [runchecks |-> <<>>] @@ Catch(TypeErrorOfNull, d, v, rt)
    ELSE [runchecks |-> Runchecks(c)] @@ AfterJoin(d, v, rt, Runchecks(c))

(***************************************************************************)
(* getVersion(), lines 33-54                                               *)
(***************************************************************************)
\* the value the promise around fs.readFile resolves with
ResolvedVersionNoFallback(o) ==
  IF o.err THEN Str("n/a")
  ELSE IF ~IsObj(o.data) THEN Str("n/a")
  ELSE Get(o.data, K_version)
ResolvedVersion(o) ==
  IF o.err THEN Str("n/a")
  ELSE IF ~IsObj(o.data) THEN Str("n/a")
  ELSE Or(Get(o.data, K_version), Str("n/a"))

\* if (!_version): whether getVersion() starts a read of package.json
NeedsReadAlways(v) == TRUE
NeedsRead(v) == ~Truthy(v)

(***************************************************************************)
(* Actions                                                                 *)
(***************************************************************************)
\* the provisioning CLI is not running
CliOff ==
  /\ argv = None
  /\ monitors = None
  /\ channels = <<>>
  /\ cliPc = "off"
  /\ frame = None
  /\ depth = 0
  /\ loadedmonitors = <<>>
  /\ pages = <<>>
  /\ lookup = None
  /\ posts = <<>>
  /\ uploads = <<>>
  /\ channelGets = 0
  /\ channelPosts = 0
  /\ doneLogged = FALSE
  /\ exitCode = None

\* the module after it was loaded: nothing cached, no call made
ReportInit ==
  /\ _version = Undefined
  /\ readFileCalls = 0
  /\ versionWrites = 0
  /\ readFileResult = None
  /\ env \in {Undefined, Str("act-1")}
  /\ pc = [i \in Invocations |-> "idle"]
  /\ call = [i \in Invocations |-> None]
  /\ checks = [i \in Invocations |-> None]
  /\ decorator = [i \in Invocations |-> None]
  /\ version = [i \in Invocations |-> None]
  /\ runchecks = [i \in Invocations |-> <<>>]
  /\ report = [i \in Invocations |-> None]
  /\ result = [i \in Invocations |-> None]
  /\ handlerCalls = [i \in Invocations |-> None]

Init == ReportInit /\ CliOff

\* the part of report() from the await of getVersion() on, for call i
Resume(i, c, d, v, rt) ==
  /\ pc' = [pc EXCEPT ![i] = TryBlock(c, d, v, rt).pc]
  /\ version' = [version EXCEPT ![i] = v]
  /\ runchecks' = [runchecks EXCEPT ![i] = TryBlock(c, d, v, rt).runchecks]
  /\ report' = [report EXCEPT ![i] = TryBlock(c, d, v, rt).report]
  /\ result' = [result EXCEPT ![i] = TryBlock(c, d, v, rt).result]

\* report(c, timeout, d) called as call i: an undefined checks takes the
\* default {}; getVersion() either starts a read of the manifest or returns
\* the cached value, and then the probes are issued
ReportCall(i, c, d) ==
  /\ checks' = [checks EXCEPT ![i] = IF c = Undefined THEN Obj(<<>>) ELSE c]
  /\ decorator' = [decorator EXCEPT ![i] = d]
  /\ IF NeedsRead(_version)
       THEN /\ readFileCalls' = readFileCalls + 1
            /\ pc' = [pc EXCEPT ![i] = "reading"]
            /\ UNCHANGED <<version, runchecks, report, result>>
       ELSE /\ \E rt \in Elapsed : Resume(i, checks'[i], d, _version, rt)
            /\ UNCHANGED readFileCalls
  /\ UNCHANGED <<_version, versionWrites, readFileResult, env>>

\* a direct call of report(checks) or report(checks, timeout, decorator)
CallReport(i) ==
  /\ pc[i] = "idle"
  /\ \E c \in CheckSpecs \cup {Null, Undefined}, d \in {XmlDecorator} :
       /\ call' = [call EXCEPT ![i] = [fn |-> "report", arg |-> c]]
       /\ ReportCall(i, c, d)
  /\ UNCHANGED handlerCalls
  /\ UNCHANGED cliVars

\* the callback of fs.readFile for call i: the promise resolves, _version is
\* assigned and report() goes on
ReadFileDone(i) ==
  /\ pc[i] = "reading"
  /\ \E o \in ReadOutcomes, rt \in Elapsed :
       /\ readFileResult' = o
       /\ _version' = ResolvedVersion(o)
       /\ versionWrites' = versionWrites + 1
       /\ Resume(i, checks[i], decorator[i], ResolvedVersion(o), rt)
  /\ UNCHANGED <<readFileCalls, env, call, checks, decorator, handlerCalls>>
  /\ UNCHANGED cliVars

\* one probe of call i ends; if report() is still waiting on the join and the
\* join settles, report() builds its result
ProbeDone(i) ==
  /\ pc[i] \in {"join", "returned", "rejected"}
  /\ \E k \in DOMAIN runchecks[i] :
       /\ IsPending(runchecks[i][k].state)
       /\ \E o \in ProbeOutcomes(runchecks[i][k].uri), rt \in Elapsed :
            LET rc == [runchecks[i] EXCEPT ![k].state = o]
                next == AfterJoin(decorator[i], version[i], rt, rc) IN
              /\ runchecks' = [runchecks EXCEPT ![i] = rc]
              /\ IF pc[i] = "join"
                   THEN /\ pc' = [pc EXCEPT ![i] = next.pc]
                        /\ report' = [report EXCEPT ![i] = next.report]
                        /\ result' = [result EXCEPT ![i] = next.result]
                   ELSE UNCHANGED <<pc, report, result>>
  /\ UNCHANGED <<_version, readFileCalls, versionWrites, readFileResult, env, call, checks,
                 decorator, version, handlerCalls>>
  /\ UNCHANGED cliVars

\* wrap(func, checks): the closure it returns
wrap(func, c) == Fn([func |-> func, checks |-> c])

\* which of the three branches of the wrapped handler params takes
RouteNoHealthcheck(params) ==
  IF Truthy(params) /\ Get(params, K_ow_path) = Str(PINGDOM_XML_PATH)
    THEN "pingdom"
    ELSE "func"
Route(params) ==
  IF Truthy(params) /\ Get(params, K_ow_path) = Str(PINGDOM_XML_PATH)
    THEN "pingdom"
    ELSE IF Truthy(params) /\ Get(params, K_ow_path) = Str(HEALTHCHECK_PATH)
      THEN "healthcheck"
      ELSE "func"

\* a call of the handler returned by wrap(func, c), lines 128-143
CallWrapped(i) ==
  /\ pc[i] = "idle"
  /\ \E c \in WrapChecks, params \in ParamsSet :
       /\ call' = [call EXCEPT ![i] = [fn |-> "wrapped", arg |-> params]]
       /\ CASE Route(params) = "pingdom" ->
                 /\ ReportCall(i, c, XmlDecorator)
                 /\ UNCHANGED handlerCalls
            [] Route(params) = "healthcheck" ->
                 /\ ReportCall(i, c, JsonDecorator)
                 /\ UNCHANGED handlerCalls
            [] OTHER ->
                 \E r \in HandlerResults :
                   /\ handlerCalls' = [handlerCalls EXCEPT
                                         ![i] = [args |-> params, returned |-> r]]
                   /\ pc' = [pc EXCEPT ![i] = "returned"]
                   /\ result' = [result EXCEPT ![i] = r]
                   /\ UNCHANGED <<_version, readFileCalls, versionWrites, readFileResult, env,
                                  checks, decorator, version, runchecks, report>>
  /\ UNCHANGED cliVars

\* which branch of main its first argument takes, lines 155-160
MainBranch(arg) ==
  IF TypeOf(arg) = "function" THEN "wrap"
  ELSE IF TypeOf(arg) = "object" THEN "report"
  ELSE "throw"

\* a call of main(arg, c)
CallMain(i) ==
  /\ pc[i] = "idle"
  /\ \E arg \in MainArgs, c \in WrapChecks :
       /\ call' = [call EXCEPT ![i] = [fn |-> "main", arg |-> arg]]
       /\ CASE MainBranch(arg) = "wrap" ->
                 /\ pc' = [pc EXCEPT ![i] = "returned"]
                 /\ result' = [result EXCEPT ![i] = wrap(arg, c)]
                 /\ UNCHANGED <<_version, readFileCalls, versionWrites, readFileResult, env,
                                checks, decorator, version, runchecks, report>>
            [] MainBranch(arg) = "report" ->
                 ReportCall(i, arg, XmlDecorator)
            [] OTHER ->
                 /\ pc' = [pc EXCEPT ![i] = "threw"]
                 /\ result' = [result EXCEPT ![i] =
                      [raised |-> "Invalid Arguments: expected function or object"]]
                 /\ UNCHANGED <<_version, readFileCalls, versionWrites, readFileResult, env,
                                checks, decorator, version, runchecks, report>>
  /\ UNCHANGED handlerCalls
  /\ UNCHANGED cliVars

Next ==
  \E i \in Invocations :
    \/ CallReport(i)
    \/ CallMain(i)
    \/ CallWrapped(i)
    \/ ReadFileDone(i)
    \/ ProbeDone(i)

Spec == Init /\ [][Next]_vars

(***************************************************************************)
(* A process whose calls do not overlap: a call starts only when no        *)
(* earlier call is still waiting for the manifest or for its join.         *)
(***************************************************************************)
Sequential(i) == \A j \in Invocations \ {i} : pc[j] \notin {"reading", "join"}

SeqCallReport(i) == Sequential(i) /\ CallReport(i)
SeqCallMain(i) == Sequential(i) /\ CallMain(i)
SeqCallWrapped(i) == Sequential(i) /\ CallWrapped(i)

NextSeq ==
  \E i \in Invocations :
    \/ SeqCallReport(i)
    \/ SeqCallMain(i)
    \/ SeqCallWrapped(i)
    \/ ReadFileDone(i)
    \/ ProbeDone(i)

SpecSeq == Init /\ [][NextSeq]_vars

(***************************************************************************)
(* The provisioning CLI, src/newrelic.js.  An action is one macrotask: the *)
(* start of the command, or the arrival of the response to the one request *)
(* in flight, with every continuation it releases up to the next request.  *)
(***************************************************************************)
frequency == 15
slaThreshold == 7
status == Str("ENABLED")
monitorType == Str("SCRIPT_API")
channelType == Str("EMAIL")
locations ==
  <<"AWS_AP_NORTHEAST_1", "AWS_AP_NORTHEAST_2", "AWS_AP_SOUTH_1",
    "AWS_AP_SOUTHEAST_1", "AWS_AP_SOUTHEAST_2", "AWS_CA_CENTRAL_1",
    "AWS_EU_CENTRAL_1", "AWS_EU_WEST_1", "AWS_EU_WEST_2", "AWS_EU_WEST_3",
    "AWS_SA_EAST_1", "AWS_US_EAST_1", "AWS_US_EAST_2", "AWS_US_WEST_1",
    "AWS_US_WEST_2", "LINODE_US_CENTRAL_1", "LINODE_US_EAST_1",
    "LINODE_US_WEST_1">>

\* limit=100 of the monitor-list request, line 59
PageLimit == 100
\* a page with fewer monitors than this ends the loop, line 65
MoreThreshold == 10

\* the id of the k-th monitor of the service: a non-empty string there, a
\* positive number here
Id(k) == Num(k)

\* the k-th monitor of the service m, as the list API shows it
Monitor(m, k) ==
  [id |-> Id(k), name |-> IF k \in m.named THEN Str("mine") ELSE Str("other")]

\* the response to GET monitors?limit=lim&offset=offset
MonitorsPage(m, lim, offset) ==
  LET n == IF m.total - offset < 0 THEN 0
           ELSE IF m.total - offset < lim THEN m.total - offset ELSE lim
      page == [k \in 1..n |-> Monitor(m, offset + k)] IN
    [count |-> n, monitors |-> page]

\* the service takes a request only with a valid key in X-Api-Key; a request
\* it takes may still fail
ValidKey == Str("key")
RequestOutcomes(auth) == IF auth = ValidKey THEN {TRUE, FALSE} ELSE {FALSE}

\* the body of the monitor-creation request, lines 122-129
CreateBody(name) ==
  [name |-> name, type |-> monitorType, frequency |-> frequency,
   locations |-> locations, status |-> status, slaThreshold |-> slaThreshold]

\* the service after it took a creation request
Created(m, body) ==
  [total |-> m.total + 1,
   named |-> IF body.name = Str("mine") THEN m.named \cup {m.total + 1}
             ELSE m.named]

\* offset=${loadedmonitors.length}, line 59
OffsetFirstPage(loaded) == 0
Offset(loaded) == Len(loaded)

\* lines 65-67: whether the loop goes on after this response
More(response) == ~(response.count < MoreThreshold)

\* lines 71-79: what getMonitors returns once the loop has ended
Filter(loaded, monitorname, monitorid) ==
  IF Truthy(monitorid)
    THEN SelectSeq(loaded, LAMBDA monitor : monitor.id = monitorid)
    ELSE IF Truthy(monitorname)
      THEN SelectSeq(loaded, LAMBDA monitor : monitor.name = monitorname)
      ELSE <<>>

\* lines 149-157: what getNotificationChannels resolves to; the map of line
\* 151 keeps id and recipients only, so channel.type is undefined
GetNotificationChannels(loadedchannels, email) ==
  LET channelsMapped ==
        [k \in DOMAIN loadedchannels |->
           [id |-> loadedchannels[k].id,
            recipients |-> loadedchannels[k].recipients,
            type |-> Undefined]] IN
    IF Truthy(email)
      THEN SelectSeq(channelsMapped,
                     LAMBDA channel : /\ channel.type = channelType
                                      /\ channel.recipients = email)
      ELSE <<>>

\* an array, and a promise with the array it will resolve to
ArrayOf(a) == [kind |-> "array", items |-> a]
PromiseOf(a) == [kind |-> "promise", items |-> a]

\* let [x] = v, line 107 and line 165: a promise is not iterable and the
\* destructuring throws a TypeError; of an array, x is the first element
DestructureAwaited(v) ==
  [throws |-> FALSE,
   first |-> IF v.items = <<>> THEN Undefined ELSE v.items[1]]
Destructure(v) ==
  IF v.kind = "promise" THEN [throws |-> TRUE, first |-> Undefined]
  ELSE [throws |-> FALSE,
        first |-> IF v.items = <<>> THEN Undefined ELSE v.items[1]]

\* how the process ends when the promise of updateOrCreate rejects: the
\* rejection is reported by yargs or left unhandled, and the exit code
\* depends on the versions of yargs and Node
RejectionExit == {0, 1}

(***************************************************************************)
(* Inputs of the CLI                                                       *)
(***************************************************************************)
Totals == {0, 9, 10, 50, 100, 105, 110, 205}

Services ==
  {[total |-> p[1], named |-> p[2]] :
     p \in {q \in Totals \X {{}, {1}, {105}, {1, 50}} :
              \A k \in q[2] : k <= q[1]}}

\* the alert channels of the service: none, or one with the recipients asked
ChannelLists(email) ==
  {<<>>, <<[id |-> Id(1), type |-> channelType, recipients |-> email]>>}

Argvs ==
  {[auth |-> a, name |-> Str("mine"), url |-> Str("https://deployed/"),
    email |-> e, monitor_id |-> mid] :
     a \in {ValidKey, Str("revoked")},
     e \in {Undefined, Str("ops@example.com")},
     mid \in {Undefined, Id(1), Id(999)}}

(***************************************************************************)
(* Actions of the CLI                                                      *)
(***************************************************************************)
InitCli ==
  /\ ReportInit
  /\ argv \in Argvs
  /\ monitors \in Services
  /\ channels \in ChannelLists(argv.email)
  /\ cliPc = "start"
  /\ frame = None
  /\ depth = 0
  /\ loadedmonitors = <<>>
  /\ pages = <<>>
  /\ lookup = None
  /\ posts = <<>>
  /\ uploads = <<>>
  /\ channelGets = 0
  /\ channelPosts = 0
  /\ doneLogged = FALSE
  /\ exitCode = None

\* updateOrCreateMonitor(auth, name, monitorId, url) is called: getMonitors
\* starts and sends its first request, lines 107 and 55-59
CallUpdateOrCreateMonitor(auth, name, monitorId, url, d) ==
  /\ frame' = [auth |-> auth, name |-> name, monitorId |-> monitorId,
               url |-> url]
  /\ depth' = d
  /\ loadedmonitors' = <<>>
  /\ pages' = <<>>
  /\ lookup' = None
  /\ cliPc' = "page"

\* the promise of updateOrCreate rejects
Reject ==
  /\ cliPc' = "rejected"
  /\ exitCode' \in RejectionExit
  /\ UNCHANGED doneLogged

\* process.exit(1), line 136
Exit1 ==
  /\ cliPc' = "exit1"
  /\ exitCode' = 1
  /\ UNCHANGED doneLogged

\* createNotificationChannel(auth, name, email), lines 164-190: the lookup
\* sends its request and returns a promise, which line 165 destructures
CreateNotificationChannel ==
  /\ channelGets' = channelGets + 1
  /\ LET d == Destructure(PromiseOf(GetNotificationChannels(channels,
                                                           argv.email))) IN
       IF d.throws
         THEN channelPosts' = channelPosts /\ Reject
         ELSE IF Truthy(d.first)
           THEN /\ channelPosts' = channelPosts
                /\ cliPc' = "done"
                /\ doneLogged' = TRUE
                /\ exitCode' = 0
           \* line 172-187: the request is sent, .channel of its promise is
           \* undefined, and line 189 reads undefined.id
           ELSE channelPosts' = channelPosts + 1 /\ Reject

\* updateOrCreate after updateOrCreateMonitor has returned, lines 202-205
AfterMonitor ==
  IF Truthy(argv.email)
    THEN CreateNotificationChannel
    ELSE /\ cliPc' = "done"
         /\ doneLogged' = TRUE
         /\ exitCode' = 0
         /\ UNCHANGED <<channelGets, channelPosts>>

\* updateOrCreateMonitor after getMonitors has returned found, lines 107-130
AfterGetMonitors(found, ok) ==
  /\ lookup' = [ok |-> ok, found |-> found]
  /\ LET monitor == Destructure(ArrayOf(found)).first IN
       IF Truthy(monitor)
         THEN /\ uploads' = Append(uploads, [id |-> monitor.id,
                                             url |-> frame.url,
                                             state |-> "sent"])
              /\ cliPc' = "put"
              /\ UNCHANGED posts
         ELSE /\ posts' = Append(posts, [auth |-> frame.auth,
                                         body |-> CreateBody(frame.name),
                                         state |-> "sent"])
              /\ cliPc' = "post"
              /\ UNCHANGED uploads

\* updateOrCreate(argv), line 201: the command starts
UpdateOrCreate ==
  /\ cliPc = "start"
  /\ CallUpdateOrCreateMonitor(argv.auth, argv.name, argv.monitor_id,
                               argv.url, 0)
  /\ UNCHANGED <<argv, monitors, channels, posts, uploads, channelGets,
                 channelPosts, doneLogged, exitCode>>
  /\ UNCHANGED reportVars

\* the response to the monitor-list request of getMonitors, lines 59-83
MonitorsResponse ==
  /\ cliPc = "page"
  /\ \E ok \in RequestOutcomes(frame.auth) :
       IF ~ok
         THEN /\ AfterGetMonitors(<<>>, FALSE)
              /\ UNCHANGED <<loadedmonitors, pages>>
         ELSE LET offset == Offset(loadedmonitors)
                  response == MonitorsPage(monitors, PageLimit, offset)
                  loaded == loadedmonitors \o response.monitors IN
                /\ pages' = Append(pages, [offset |-> offset,
                                           limit |-> PageLimit,
                                           count |-> response.count])
                /\ loadedmonitors' = loaded
                /\ IF More(response)
                     THEN UNCHANGED <<cliPc, lookup, posts, uploads>>
                     ELSE AfterGetMonitors(
                            Filter(loaded, frame.name, frame.monitorId), TRUE)
  /\ UNCHANGED <<argv, monitors, channels, frame, depth, channelGets,
                 channelPosts, doneLogged, exitCode>>
  /\ UNCHANGED reportVars

\* the response to the script upload of updateScript, lines 95-103; no frame
\* catches its failure but the try of a creating caller, lines 116-137
ScriptResponse ==
  /\ cliPc = "put"
  /\ \E ok \in RequestOutcomes(frame.auth) :
       /\ uploads' = [uploads EXCEPT ![Len(uploads)].state =
                                       IF ok THEN "ok" ELSE "failed"]
       /\ IF ok THEN AfterMonitor
          ELSE /\ IF depth = 0 THEN Reject ELSE Exit1
               /\ UNCHANGED <<channelGets, channelPosts>>
  /\ UNCHANGED <<argv, monitors, channels, frame, depth, loadedmonitors,
                 pages, lookup, posts>>
  /\ UNCHANGED reportVars

\* the response to the monitor-creation request, lines 117-137: on success
\* updateOrCreateMonitor is called with one object as its only argument
CreateResponse ==
  /\ cliPc = "post"
  /\ \E ok \in RequestOutcomes(frame.auth) :
       /\ posts' = [posts EXCEPT ![Len(posts)].state =
                                   IF ok THEN "ok" ELSE "failed"]
       /\ IF ok
            THEN /\ monitors' = Created(monitors, posts[Len(posts)].body)
                 /\ CallUpdateOrCreateMonitor(
                      [obj |-> [auth |-> frame.auth, name |-> frame.name,
                                id |-> frame.monitorId, url |-> frame.url]],
                      Undefined, Undefined, Undefined, depth + 1)
                 /\ UNCHANGED <<doneLogged, exitCode>>
            ELSE /\ Exit1
                 /\ UNCHANGED <<monitors, frame, depth, loadedmonitors, pages,
                                lookup>>
  /\ UNCHANGED <<argv, channels, uploads, channelGets, channelPosts>>
  /\ UNCHANGED reportVars

NextCli ==
  \/ UpdateOrCreate
  \/ MonitorsResponse
  \/ ScriptResponse
  \/ CreateResponse

SpecCli == InitCli /\ [][NextCli]_vars

(***************************************************************************)
(* Properties                                                              *)
(***************************************************************************)
\* call i went through report() and report() has returned a rendered result
ReportReturned(i) == pc[i] = "returned" /\ report[i] # None

\* call i is a report() whose probes (if any) have all ended fulfilled
AllProbesOk(i) ==
  /\ pc[i] \in {"returned", "rejected"}
  /\ IsObj(checks[i])
  /\ \A k \in DOMAIN runchecks[i] : IsFulfilled(runchecks[i][k].state)

\* the keys of a check specification made of lowercase letters and digits only
RetainedKeys(c) ==
  {k \in DOMAIN c.obj :
     Len(k) > 0 /\ \A n \in 1..Len(k) : k[n] \in Lower \cup Digit}

\* the fields of a report whose value is a number
NumericFields(r) == {k \in DOMAIN r.obj : IsNum(r.obj[k])}

\* C1: whenever every retained probe of a report() call has answered 2xx,
\* the call returns statusCode 200 and a report whose status field is "OK"
\* and whose numeric fields, response_time aside, are exactly the retained
\* check keys, each holding the floor of its own probe's response-end timing.
C1_AllOkGivesOkReport ==
  \A i \in Invocations :
    AllProbesOk(i) =>
      /\ ReportReturned(i)
      /\ result[i].statusCode = Num(200)
      /\ Get(report[i], K_status) = Str("OK")
      /\ NumericFields(report[i]) \ {K_response_time} = RetainedKeys(checks[i])
      /\ \A k \in RetainedKeys(checks[i]) :
           Get(report[i], k) = Num(runchecks[i][k].state.fulfilled.timings.end.whole)

\* C2: whenever a retained probe of a report() call has failed, the call has
\* returned a report with status "failed" whose error.url is the URL of one
\* of the failed probes, and the statusCode is that failure's HTTP status
\* code, or 500 when the failure has no response.
C2_FailureGivesFailedReport ==
  \A i \in Invocations :
    (\E k \in DOMAIN runchecks[i] : IsRejected(runchecks[i][k].state)) =>
      /\ ReportReturned(i)
      /\ Get(report[i], K_status) = Str("failed")
      /\ \E k \in DOMAIN runchecks[i] :
           /\ IsRejected(runchecks[i][k].state)
           /\ Get(Get(report[i], K_error), K_url) = checks[i].obj[k]
           /\ result[i].statusCode =
                IF runchecks[i][k].state.rejected.response = Undefined
                  THEN Num(500)
                  ELSE runchecks[i][k].state.rejected.response.statusCode

C2_Witness ==
  \E i \in Invocations :
    /\ ReportReturned(i)
    /\ result[i].statusCode = Num(404)
    /\ \E k \in DOMAIN runchecks[i] : IsFulfilled(runchecks[i][k].state)

\* C3: no report() call ends by raising: its promise is never rejected.
C3_ReportNeverRejects ==
  \A i \in Invocations : pc[i] # "rejected"

\* C4: a key of the check specification that holds a character other than a
\* lowercase letter or a digit is never probed and is no field of the report.
C4_InvalidKeyNeverProbed ==
  \A i \in Invocations :
    IsObj(checks[i]) =>
      \A k \in DOMAIN checks[i].obj :
        (\E n \in 1..Len(k) : k[n] \notin Lower \cup Digit) =>
          /\ k \notin DOMAIN runchecks[i]
          /\ report[i] # None => k \notin DOMAIN report[i].obj

C4_Witness ==
  \E i \in Invocations :
    /\ ReportReturned(i)
    /\ K_D1 \in DOMAIN checks[i].obj
    /\ K_status \in DOMAIN runchecks[i]
    /\ result[i].statusCode = Num(200)

\* the path a wrapped handler was called with, "" when there is none
PathOf(params) ==
  IF IsObj(params) /\ IsStr(Get(params, K_ow_path))
    THEN Get(params, K_ow_path).str
    ELSE ""

\* the wrapped function was called with exactly the params of call i and
\* call i returned exactly what it returned
Delegated(i) ==
  /\ handlerCalls[i] # None
  /\ handlerCalls[i].args = call[i].arg
  /\ pc[i] = "returned"
  /\ result[i] = handlerCalls[i].returned

\* C5 as stated: with the pingdom path the wrapped function is never called,
\* with any other path it is always called with the unmodified arguments and
\* its result is returned unmodified.
C5_OnlyPingdomIntercepted ==
  \A i \in Invocations :
    (call[i] # None /\ call[i].fn = "wrapped") =>
      IF PathOf(call[i].arg) = PINGDOM_XML_PATH
        THEN handlerCalls[i] = None
        ELSE Delegated(i)

\* C5 amended: with the pingdom path or the healthcheck path the wrapped
\* function is never called; with any other path, or without params, it is
\* always called with the unmodified arguments and its result is returned
\* unmodified.
C5_BothStatusPathsIntercepted ==
  \A i \in Invocations :
    (call[i] # None /\ call[i].fn = "wrapped") =>
      IF PathOf(call[i].arg) \in {PINGDOM_XML_PATH, HEALTHCHECK_PATH}
        THEN handlerCalls[i] = None /\ decorator[i] # None
        ELSE Delegated(i)

C5_Witness ==
  \E i, j \in Invocations :
    /\ call[i] # None /\ call[i].fn = "wrapped"
    /\ PathOf(call[i].arg) = "/index.html"
    /\ Delegated(i)
    /\ call[j] # None /\ call[j].fn = "wrapped"
    /\ PathOf(call[j].arg) = HEALTHCHECK_PATH
    /\ ReportReturned(j)

\* C6: in a process whose report() calls do not overlap, all calls carry the
\* same version string and the manifest is read at most once.
C6_SequentialCallsShareVersion ==
  /\ readFileCalls <= 1
  /\ \A i, j \in Invocations :
       (version[i] # None /\ version[j] # None) => version[i] = version[j]
  /\ \A i, j \in Invocations :
       (ReportReturned(i) /\ ReportReturned(j)) =>
         result[i].headers.XVersion = result[j].headers.XVersion

C6_Witness ==
  /\ readFileCalls = 1
  /\ \A i \in {1, 2} : ReportReturned(i)

\* C7: the cached version string is written at most once.
C7_VersionWrittenOnce == versionWrites <= 1

\* C8: main returns wrap(arg, checks) for a function, starts report(arg) for
\* a plain object, and for every other first argument (null included) throws
\* the invalid-arguments error without starting a report.
C8_MainDispatch ==
  \A i \in Invocations :
    (call[i] # None /\ call[i].fn = "main") =>
      CASE TypeOf(call[i].arg) = "function" ->
             /\ pc[i] = "returned"
             /\ \E c \in WrapChecks : result[i] = wrap(call[i].arg, c)
        [] IsObj(call[i].arg) ->
             /\ checks[i] = call[i].arg
             /\ pc[i] # "threw"
        [] OTHER ->
             /\ pc[i] = "threw"
             /\ checks[i] = None

\* C9: every retained probe is issued before report() waits on the join; the
\* wait is over as soon as a probe has failed or all have succeeded, so a
\* failed report is returned while other probes may still be pending, and an
\* OK report is never returned while a retained probe is pending.
C9_FailFastJoin ==
  \A i \in Invocations :
    /\ (pc[i] \in {"join", "returned"} /\ IsObj(checks[i])) =>
         DOMAIN runchecks[i] = RetainedKeys(checks[i])
    /\ pc[i] = "join" =>
         /\ \A k \in DOMAIN runchecks[i] : ~IsRejected(runchecks[i][k].state)
         /\ \E k \in DOMAIN runchecks[i] : IsPending(runchecks[i][k].state)
    /\ (ReportReturned(i) /\ result[i].statusCode = Num(200)) =>
         \A k \in DOMAIN runchecks[i] : IsFulfilled(runchecks[i][k].state)

C9_Witness ==
  \E i \in Invocations :
    /\ ReportReturned(i)
    /\ Get(report[i], K_status) = Str("failed")
    /\ \E k \in DOMAIN runchecks[i] : IsPending(runchecks[i][k].state)

\* C10: in every result of report() the Content-Type header is the mime of
\* the decorator in use and the X-Version header is the version field of the
\* report rendered in the body.
C10_HeadersMatchReport ==
  \A i \in Invocations :
    ReportReturned(i) =>
      /\ result[i].headers.ContentType = decorator[i].mime
      /\ result[i].headers.XVersion = Get(report[i], K_version)

\* the manifest could not be read, or is not JSON, or holds no version
ManifestFailed(o) ==
  IF o.err THEN TRUE
  ELSE IF ~IsObj(o.data) THEN TRUE
  ELSE K_version \notin DOMAIN o.data.obj

\* C11: in a process whose calls do not overlap, once the manifest could not
\* be read or parsed (or holds no version) the cached version is "n/a", the
\* manifest is not read again, and every call resolves "n/a" and goes on to
\* its probes and its rendered report, which carries "n/a" as X-Version and,
\* unless a check key named version replaced it, as its version field.
C11_VersionFallback ==
  (readFileResult # None /\ ManifestFailed(readFileResult)) =>
    /\ _version = Str("n/a")
    /\ readFileCalls = 1
    /\ \A i \in Invocations :
         version[i] # None =>
           /\ version[i] = Str("n/a")
           /\ checks[i] # Null => pc[i] \in {"join", "returned"}
           /\ ReportReturned(i) =>
                /\ result[i].headers.XVersion = Str("n/a")
                /\ K_version \notin DOMAIN runchecks[i] =>
                     Get(report[i], K_version) = Str("n/a")

C11_Witness ==
  /\ readFileResult = [err |-> FALSE, data |-> Str("not json")]
  /\ readFileCalls = 1
  /\ \A i \in {1, 2} :
       ReportReturned(i) /\ Get(report[i], K_version) = Str("n/a")

\* the error object of a failed report
ErrorOf(r) == Get(r, K_error)

\* C14: the step in which report() leaves its join with a failed report is
\* the step in which one probe fails, and the report's error is that probe's:
\* error.url is its URL, error.statuscode and the returned statusCode are its
\* HTTP status code, or 500 without a response, and error.body is its
\* response body or, without a body, its error message; once report() has
\* returned, later probe completions change neither report nor result.
C14_ErrorOfFirstFailure ==
  [][\A i \in Invocations :
       /\ (pc[i] = "join" /\ pc'[i] = "returned"
             /\ Get(report'[i], K_status) = Str("failed")) =>
            \E k \in DOMAIN runchecks[i] :
              /\ IsPending(runchecks[i][k].state)
              /\ IsRejected(runchecks'[i][k].state)
              /\ LET e == runchecks'[i][k].state.rejected
                     err == ErrorOf(report'[i]) IN
                   /\ Get(err, K_url) = checks[i].obj[k]
                   /\ Get(err, K_statuscode) = result'[i].statusCode
                   /\ result'[i].statusCode =
                        IF e.response = Undefined THEN Num(500)
                        ELSE e.response.statusCode
                   /\ Get(err, K_body) =
                        IF e.response # Undefined /\ e.response.body # Str("")
                          THEN e.response.body
                          ELSE e.message
       /\ pc[i] = "returned" =>
            report'[i] = report[i] /\ result'[i] = result[i]]_vars

C14_Witness ==
  \E i \in Invocations :
    /\ ReportReturned(i)
    /\ Get(report[i], K_status) = Str("failed")
    /\ Get(ErrorOf(report[i]), K_body) = Str("ESOCKETTIMEDOUT")
    /\ \E k \in DOMAIN runchecks[i] :
         /\ IsRejected(runchecks[i][k].state)
         /\ runchecks[i][k].state.rejected.response # Undefined
         /\ Get(ErrorOf(report[i]), K_url) # runchecks[i][k].uri

\* C17: in every OK report the fields status, version, response_time and
\* process hold their own values, whatever the check keys are.
C17_FixedFieldsKept ==
  \A i \in Invocations :
    (ReportReturned(i) /\ result[i].statusCode = Num(200)) =>
      /\ Get(report[i], K_status) = Str("OK")
      /\ Get(report[i], K_version) = version[i]
      /\ Get(report[i], K_response_time) \in {Num(MathAbs(rt)) : rt \in Elapsed}
      /\ Get(report[i], K_process) = Obj(K_activation :> env)

\* the number of monitors the first n pages of the running getMonitors held
RECURSIVE CountSum(_, _)
CountSum(ps, n) == IF n = 0 THEN 0 ELSE CountSum(ps, n - 1) + ps[n].count

\* the monitors of the service m, each once, in the order of the list API
AllMonitors(m) == [k \in 1..m.total |-> Monitor(m, k)]

\* C15: getMonitors asks for pages of 100 at the offset of the monitors it
\* has loaded, goes on exactly while the pages hold 10 monitors or more,
\* ends within total/100 + 2 requests, and then has loaded every monitor
\* once and returns those with the id given, else those with the name
\* given, else none.
C15_PagingLoadsEveryMonitorOnce ==
  /\ \A n \in DOMAIN pages :
       /\ pages[n].limit = 100
       /\ pages[n].offset = CountSum(pages, n - 1)
       /\ n < Len(pages) => pages[n].count >= 10
  /\ Len(pages) <= (monitors.total \div 100) + 2
  /\ (cliPc = "page" /\ pages # <<>>) => pages[Len(pages)].count >= 10
  /\ (lookup # None /\ lookup.ok) =>
       /\ pages # <<>> /\ pages[Len(pages)].count < 10
       /\ loadedmonitors = AllMonitors(monitors)
       /\ \A k \in 1..monitors.total :
            Cardinality({j \in DOMAIN loadedmonitors :
                           loadedmonitors[j].id = Id(k)}) = 1
       /\ LET byId == {j \in 1..monitors.total : Id(j) = frame.monitorId}
              byName == {j \in 1..monitors.total :
                           Monitor(monitors, j).name = frame.name}
              want == IF frame.monitorId # Undefined THEN byId
                      ELSE IF frame.name # Undefined THEN byName ELSE {} IN
            /\ {lookup.found[j].id : j \in DOMAIN lookup.found}
                 = {Id(j) : j \in want}
            /\ Len(lookup.found) = Cardinality(want)

\* a lookup by name went through three pages and found two monitors
C15_Witness ==
  /\ lookup # None /\ lookup.ok
  /\ Len(pages) = 3
  /\ frame.monitorId = Undefined
  /\ Len(lookup.found) = 2

\* the run of the CLI has ended
Ended == cliPc \in {"done", "exit1", "rejected"}

\* some monitor-creation request of the run was taken by the service
CreatedOne == \E n \in DOMAIN posts : posts[n].state = "ok"

\* C12: a monitor that was found gets the script; a monitor that was not
\* found is created with the fixed parameters, the recursive call runs with
\* the auth, name and url of the run, and a run that created a monitor
\* ends with a script upload to that monitor.
C12_RecursionKeepsArguments ==
  /\ cliPc = "put" =>
       uploads[Len(uploads)].id = lookup.found[1].id
  /\ \A n \in DOMAIN posts :
       posts[n].body =
         [name |-> argv.name, type |-> Str("SCRIPT_API"), frequency |-> 15,
          locations |-> locations, status |-> Str("ENABLED"),
          slaThreshold |-> 7]
  /\ depth > 0 =>
       /\ frame.auth = argv.auth
       /\ frame.name = argv.name
       /\ frame.url = argv.url
  /\ (Ended /\ CreatedOne) =>
       \E u \in DOMAIN uploads : uploads[u].id = Id(monitors.total)

\* C13: a run that ended has exit code other than 0 when a
\* monitor-creation request failed, and has logged 'done.' and has exit
\* code 0 otherwise.
C13_ExitCodes ==
  Ended =>
    IF \E n \in DOMAIN posts : posts[n].state = "failed"
      THEN exitCode # 0
      ELSE doneLogged /\ exitCode = 0

Existing ==
  {k \in 1..monitors.total :
     \/ Id(k) = argv.monitor_id
     \/ Monitor(monitors, k).name = argv.name}

\* C18: a monitor-creation request is in flight only after a lookup that
\* succeeded, and only while the service holds no monitor with the id or the
\* name of the run.
C18_CreationOnlyAfterGoodLookup ==
  cliPc = "post" => lookup.ok /\ Existing = {}

\* C19: a run issues at most one monitor-creation request, recurses at
\* most once, and the lookup of the recursive call finds a monitor.
C19_AtMostOneCreation ==
  /\ Len(posts) <= 1
  /\ depth <= 1
  /\ (depth = 1 /\ lookup # None) => lookup.found # <<>>

====
